---- MODULE Spec2Model ----
(***************************************************************************)
(* Lunar lander simulation: the vehicle (Lander), the terrain, the physics  *)
(* engine and the parts of the driver (Game) that reset and step them.      *)
(*                                                                          *)
(* Numbers.  The program computes in 32-bit floats; the model computes in   *)
(* fixed point and rounds every quotient to the nearest grid value:         *)
(*   length    1/100000 m   (Meter units per metre)                         *)
(*   velocity  length units per second                                      *)
(*   time      1/10 s       (TicksPerSecond ticks per second)               *)
(*   fuel      gram         (Milli units per kg)                            *)
(*   thrust level, sin, cos   thousandths (Milli)                           *)
(*   angles    whole degrees                                                *)
(***************************************************************************)
EXTENDS Integers, Sequences, FiniteSets, TLC

Milli == 10 * 10 * 10
Meter == 100 * Milli
TicksPerSecond == 2 * 5

\* Bounds of the exploration (not program constants).
MaxOps == 3

Max(a, b) == IF a >= b THEN a ELSE b
Min(a, b) == IF a <= b THEN a ELSE b
Abs(a) == IF a < 0 THEN -a ELSE a

\* a / b of the float arithmetic, rounded to the nearest grid value (b > 0).
RDiv(a, b) == (2 * a + b) \div (2 * b)

\* a / b of C's int arithmetic: truncation toward zero (b > 0).
CDiv(a, b) == IF a >= 0 THEN a \div b ELSE -((-a) \div b)

(***************************************************************************)
(* Program constants                                                        *)
(***************************************************************************)
mPixelsPerMeter == 20
segmentCount == 10
mWindowWidth == 800
mWindowHeight == 600
LanderHeightPx == 30
mMass == 1000
mFuelConsumptionRate == 10
mMaxFuel == 1000 * Milli
LunarGravity == 162 * (Meter \div 100)
safeVerticalVelocity == 2 * Meter
safeHorizontalVelocity == 1 * Meter
startHeight == 20 * Meter
ThrustToWeightTenths == 25

\* sin of 0..90 degrees, in thousandths.
SinTab ==
  << 0, 17, 35, 52, 70, 87, 105, 122, 139, 156, 174, 191, 208,
     225, 242, 259, 276, 292, 309, 326, 342, 358, 375, 391, 407, 423,
     438, 454, 469, 485, 500, 515, 530, 545, 559, 574, 588, 602, 616,
     629, 643, 656, 669, 682, 695, 707, 719, 731, 743, 755, 766, 777,
     788, 799, 809, 819, 829, 839, 848, 857, 866, 875, 883, 891, 899,
     906, 914, 921, 927, 934, 940, 946, 951, 956, 961, 966, 970, 974,
     978, 982, 985, 988, 990, 993, 995, 996, 998, 999, 999, 1000, 1000 >>

Sin(deg) ==
  LET d == deg % 360
  IN  IF d <= 90 THEN SinTab[d + 1]
      ELSE IF d <= 180 THEN SinTab[180 - d + 1]
      ELSE IF d <= 270 THEN -SinTab[d - 180 + 1]
      ELSE -SinTab[360 - d + 1]

Cos(deg) == Sin(deg + 90)

(***************************************************************************)
(* State                                                                    *)
(***************************************************************************)
VARIABLES
  mLander,      \* the Lander object: its fields
  mTerrain,     \* the Terrain object
  mPhysics,     \* the Physics object
  mGameState,   \* Game::mGameState
  game3DMode,   \* Game::m3DMode
  op,           \* the operation that produced this state
  arg,          \* its argument
  hitSeg,       \* index of the segment on which the last CheckCollision2D
                \* detected the contact (0: none)
  wasTerminal,  \* whether the vehicle was landed or crashed before op
  burned,       \* sum of thrustLevel * deltaTime over the Lander::Update
                \* calls made with thrust active since the last reset
  nullQuery,    \* the outcome of the last terrain query made with a null
                \* vehicle: the value returned, and whether it was fatal
  mGame,        \* further members of the Game object: mFuelUsed, mIsRunning,
                \* mDifficulty
  frame,        \* about the last iteration of Game::Run: the game state it
                \* started in, whether it stepped the physics, and whether
                \* an object was destroyed inside one of its own methods
  faulted,      \* whether an operation with undefined behaviour has ended
                \* the process
  heap,         \* the Bullet objects of the engine: how many of each kind
                \* are allocated, whether one was deleted twice, and the
                \* size of Physics::mTerrainRigidBodies
  nOps          \* operations since the last reset (bounds the exploration)

vars == << mLander, mTerrain, mPhysics, mGameState, game3DMode,
           op, arg, hitSeg, wasTerminal, burned, nullQuery, mGame, frame,
           faulted, heap, nOps >>

(***************************************************************************)
(* Lander  (Entity.cpp)                                                     *)
(***************************************************************************)
\* Lander::Lander
NewLander ==
  [ mPosition     |-> << 0, 0, 0 >>,
    mRotation     |-> << 0, 0, 0 >>,
    mVelocity     |-> << 0, 0, 0 >>,
    mAcceleration |-> << 0, 0, 0 >>,
    mThrustLevel  |-> 0,
    mThrustActive |-> FALSE,
    mFuel         |-> mMaxFuel,
    mLanded       |-> FALSE,
    mCrashed      |-> FALSE,
    mActive       |-> TRUE ]

\* Entity::SetPosition(x, y, z)
SetPosition(l, x, y, z) == [l EXCEPT !.mPosition = << x, y, z >>]

\* Variant: the fuel is not clamped at zero.
Lander_Update_Unclamped(l, dt) ==
  IF l.mThrustActive /\ l.mFuel > 0
  THEN LET consumptionRate == mFuelConsumptionRate * l.mThrustLevel
           fuel == l.mFuel - RDiv(consumptionRate * dt, TicksPerSecond)
       IN  IF fuel <= 0
           THEN [l EXCEPT !.mFuel = fuel, !.mThrustActive = FALSE, !.mThrustLevel = 0]
           ELSE [l EXCEPT !.mFuel = fuel]
  ELSE l

\* Variant: running out of fuel does not switch the thrust off.
Lander_Update_KeepsThrust(l, dt) ==
  IF l.mThrustActive /\ l.mFuel > 0
  THEN LET consumptionRate == mFuelConsumptionRate * l.mThrustLevel
           fuel == Max(0, l.mFuel - RDiv(consumptionRate * dt, TicksPerSecond))
       IN  [l EXCEPT !.mFuel = fuel]
  ELSE l

\* Variant: the consumption does not depend on the thrust level.
Lander_Update_FlatRate(l, dt) ==
  IF l.mThrustActive /\ l.mFuel > 0
  THEN LET consumptionRate == mFuelConsumptionRate * Milli
           fuel == Max(0, l.mFuel - RDiv(consumptionRate * dt, TicksPerSecond))
       IN  IF fuel <= 0
           THEN [l EXCEPT !.mFuel = fuel, !.mThrustActive = FALSE, !.mThrustLevel = 0]
           ELSE [l EXCEPT !.mFuel = fuel]
  ELSE l

\* Lander::Update(deltaTime)
Lander_Update(l, dt) ==
  IF l.mThrustActive /\ l.mFuel > 0
  THEN LET consumptionRate == mFuelConsumptionRate * l.mThrustLevel
           fuel == Max(0, l.mFuel - RDiv(consumptionRate * dt, TicksPerSecond))
       IN  IF fuel <= 0
           THEN [l EXCEPT !.mFuel = fuel, !.mThrustActive = FALSE, !.mThrustLevel = 0]
           ELSE [l EXCEPT !.mFuel = fuel]
  ELSE l

\* Variant: the amount is clamped from above only.
Lander_ApplyThrust_NoFloor(l, amount) ==
  IF l.mFuel <= 0
  THEN [l EXCEPT !.mThrustActive = FALSE, !.mThrustLevel = 0]
  ELSE LET level == Min(Milli, amount)
       IN  [l EXCEPT !.mThrustLevel = level, !.mThrustActive = (level > 0)]

\* Lander::ApplyThrust(amount)
Lander_ApplyThrust(l, amount) ==
  IF l.mFuel <= 0
  THEN [l EXCEPT !.mThrustActive = FALSE, !.mThrustLevel = 0]
  ELSE LET level == Max(0, Min(Milli, amount))
       IN  [l EXCEPT !.mThrustLevel = level, !.mThrustActive = (level > 0)]

\* Lander::RotateLeft(amount)
RECURSIVE WrapDown(_)
WrapDown(r) == IF r >= 360 THEN WrapDown(r - 360) ELSE r

Lander_RotateLeft(l, amount) ==
  [l EXCEPT !.mRotation[3] = WrapDown(l.mRotation[3] + amount)]

\* Lander::RotateRight(amount)
RECURSIVE WrapUp(_)
WrapUp(r) == IF r < 0 THEN WrapUp(r + 360) ELSE r

Lander_RotateRight(l, amount) ==
  [l EXCEPT !.mRotation[3] = WrapUp(l.mRotation[3] - amount)]

\* Variant: a reset that does not refill the tank.
Lander_Reset_NoRefuel(l) ==
  [l EXCEPT !.mPosition = << 0, 5 * Meter, 0 >>,
            !.mRotation = << 0, 0, 0 >>,
            !.mVelocity = << 0, 0, 0 >>,
            !.mAcceleration = << 0, 0, 0 >>,
            !.mThrustLevel = 0,
            !.mThrustActive = FALSE,
            !.mLanded = FALSE,
            !.mCrashed = FALSE,
            !.mActive = TRUE]

\* Variant: a reset that leaves the crashed flag alone.
Lander_Reset_KeepsCrashed(l) ==
  [l EXCEPT !.mPosition = << 0, 5 * Meter, 0 >>,
            !.mRotation = << 0, 0, 0 >>,
            !.mVelocity = << 0, 0, 0 >>,
            !.mAcceleration = << 0, 0, 0 >>,
            !.mThrustLevel = 0,
            !.mThrustActive = FALSE,
            !.mFuel = mMaxFuel,
            !.mLanded = FALSE,
            !.mActive = TRUE]

\* Lander::Reset
Lander_Reset(l) ==
  [l EXCEPT !.mPosition = << 0, 5 * Meter, 0 >>,
            !.mRotation = << 0, 0, 0 >>,
            !.mVelocity = << 0, 0, 0 >>,
            !.mAcceleration = << 0, 0, 0 >>,
            !.mThrustLevel = 0,
            !.mThrustActive = FALSE,
            !.mFuel = mMaxFuel,
            !.mLanded = FALSE,
            !.mCrashed = FALSE,
            !.mActive = TRUE]

(***************************************************************************)
(* Terrain  (Terrain.cpp)                                                   *)
(***************************************************************************)
\* The rand() % 20 draws of one Generate2D call: draw number -> value.
RandPatterns ==
  { [i \in 1..(2 * segmentCount) |-> 0],
    [i \in 1..(2 * segmentCount) |-> 19],
    [i \in 1..(2 * segmentCount) |-> (7 * i) % 20] }

\* The segments Terrain::Generate2D leaves for the given pad indices
\* (Terrain.cpp:45-55, 69-76).
Segments2D(width, height, rnd, startSegment, endSegment) ==
  LET baseHeight == height - 50
      segWidth == CDiv(width, segmentCount)
      IsPad(i) == i >= startSegment /\ i <= endSegment /\ i < segmentCount /\ i >= 0
  IN  [ mWidth |-> width,
        mHeight |-> height,
        mSegments2D |->
          [ k \in 1..segmentCount |->
              LET i == k - 1
              IN  [ x1 |-> i * segWidth,
                    y1 |-> IF IsPad(i) THEN baseHeight ELSE baseHeight - rnd[2 * i + 1],
                    x2 |-> (i + 1) * segWidth,
                    y2 |-> IF IsPad(i) THEN baseHeight ELSE baseHeight - rnd[2 * i + 2],
                    isLandingPad |-> IsPad(i) ] ] ]

\* Terrain::Generate2D(width, height), with rnd the rand() draws, for a width
\* of at least segmentCount.
Generate2D(width, height, rnd) ==
  LET segWidth == CDiv(width, segmentCount)
      centerX == CDiv(width, 2)
      landingPadWidth == segWidth * 2
      landingPadStart == centerX - CDiv(landingPadWidth, 2)
      startSegment == CDiv(landingPadStart, segWidth)
      endSegment == CDiv(landingPadStart + landingPadWidth, segWidth)
  IN  Segments2D(width, height, rnd, startSegment, endSegment)

\* Every outcome of Terrain::Generate2D(width, height).  With width <
\* segmentCount the int width / segmentCount is 0 and the two quotients of
\* lines 66-67 divide by it: the process is ended there, with the ten
\* segments pushed and none flagged, or the quotients are any int.
Terrain_Generate2D(width, height, rnd) ==
  IF CDiv(width, segmentCount) = 0
  THEN { [ terrain |-> Segments2D(width, height, rnd, 0, -1), faulted |-> TRUE ] }
         \cup { [ terrain |-> Segments2D(width, height, rnd, s, e), faulted |-> FALSE ] :
                  s \in { -1, 0, segmentCount }, e \in { -1, segmentCount - 1 } }
  ELSE { [ terrain |-> Generate2D(width, height, rnd), faulted |-> FALSE ] }

\* Terrain::Terrain followed by Generate3D: no 2D segment exists.
NoSegments(width, height) ==
  [ mWidth |-> width, mHeight |-> height, mSegments2D |-> << >> ]

\* The vehicle's x in screen pixels, scaled by Meter (Terrain.cpp:105, 142).
ScreenX(l) == l.mPosition[1] * mPixelsPerMeter

\* The vehicle's bottom edge in metres (Terrain.cpp:98-102).
LanderBottomY(l) == l.mPosition[2] - RDiv(RDiv(LanderHeightPx * Meter, mPixelsPerMeter), 2)

\* Variant: the ends of the span are excluded.
Contains_Open(seg, l) == ScreenX(l) > seg.x1 * Meter /\ ScreenX(l) < seg.x2 * Meter

\* screenLanderX >= segment.x1 && screenLanderX <= segment.x2
Contains(seg, l) == ScreenX(l) >= seg.x1 * Meter /\ ScreenX(l) <= seg.x2 * Meter

\* The segment's interpolated height at the vehicle's x, in metres
\* (Terrain.cpp:113-117).
TerrainHeightMeters(t, seg, l) ==
  LET segmentY == seg.y1 * Meter
                    + RDiv((ScreenX(l) - seg.x1 * Meter) * (seg.y2 - seg.y1), seg.x2 - seg.x1)
  IN  RDiv(t.mHeight * Meter - segmentY, mPixelsPerMeter)

\* The test of the loop body of Terrain::CheckCollision2D on one segment.
CollidesOn(t, k, l) ==
  /\ Contains(t.mSegments2D[k], l)
  /\ LanderBottomY(l) <= TerrainHeightMeters(t, t.mSegments2D[k], l)

\* Terrain::CheckCollision2D: the first segment, in order, that signals.
Terrain_CheckCollision2D(t, l) ==
  LET hits == { k \in DOMAIN t.mSegments2D : CollidesOn(t, k, l) }
  IN  IF hits = {}
      THEN [ collides |-> FALSE, seg |-> 0, collisionHeight |-> 0 ]
      ELSE LET k == CHOOSE h \in hits : \A j \in hits : h <= j
           IN  [ collides |-> TRUE, seg |-> k,
                 collisionHeight |-> TerrainHeightMeters(t, t.mSegments2D[k], l) ]

\* Variant: the safe velocities are exclusive bounds.
Terrain_IsValidLanding2D_Strict(t, l) ==
  \E k \in DOMAIN t.mSegments2D :
    /\ t.mSegments2D[k].isLandingPad
    /\ Contains(t.mSegments2D[k], l)
    /\ Abs(l.mVelocity[2]) < safeVerticalVelocity
    /\ Abs(l.mVelocity[1]) < safeHorizontalVelocity

\* Terrain::IsValidLanding2D
Terrain_IsValidLanding2D(t, l) ==
  \E k \in DOMAIN t.mSegments2D :
    /\ t.mSegments2D[k].isLandingPad
    /\ Contains(t.mSegments2D[k], l)
    /\ Abs(l.mVelocity[2]) <= safeVerticalVelocity
    /\ Abs(l.mVelocity[1]) <= safeHorizontalVelocity

(***************************************************************************)
(* Physics  (Physics.cpp)                                                   *)
(***************************************************************************)
\* No btRigidBody (mLanderRigidBody == nullptr).
NoBody ==
  [ exists |-> FALSE, pos |-> << 0, 0, 0 >>, vel |-> << 0, 0, 0 >>, static |-> FALSE ]

\* Physics::Physics, then RegisterLander and RegisterTerrain.  mLander and
\* mTerrain say whether the pointer is set; manifold is the contact the
\* dynamics world reports for the lander body.
NewPhysics ==
  [ mGravity |-> LunarGravity,
    mTimeScale |-> 1,
    m3DMode |-> FALSE,
    mLander |-> TRUE,
    mTerrain |-> TRUE,
    mDynamicsWorld |-> FALSE,
    mLanderRigidBody |-> NoBody,
    manifold |-> "none" ]

\* The result of a collision check: the vehicle, whether the terrain was
\* queried, the segment that signalled, and the return value.
Outcome(l, ran, seg, ret) == [ lander |-> l, ran |-> ran, seg |-> seg, ret |-> ret ]

\* Variant: only the vertical velocity is zeroed.
StopMovement_VerticalOnly(l) == [l EXCEPT !.mVelocity[2] = 0]

\* velocity[0] = velocity[1] = 0.0f
StopMovement(l) == [l EXCEPT !.mVelocity[1] = 0, !.mVelocity[2] = 0]

\* Physics::CheckCollisions2D past its two early returns (Physics.cpp:536-571).
Resolve2D(t, l) ==
  LET c == Terrain_CheckCollision2D(t, l)
  IN  IF c.collides
      THEN LET landerHeight == RDiv(LanderHeightPx * Meter, mPixelsPerMeter)
               l1 == SetPosition(l, l.mPosition[1],
                                 c.collisionHeight + RDiv(landerHeight, 2), 0)
           IN  IF Terrain_IsValidLanding2D(t, l1)
               THEN Outcome(StopMovement([l1 EXCEPT !.mLanded = TRUE]), TRUE, c.seg, TRUE)
               ELSE Outcome(StopMovement([l1 EXCEPT !.mCrashed = TRUE]), TRUE, c.seg, TRUE)
      ELSE Outcome(l, TRUE, 0, FALSE)

\* Variant: the check runs again on a vehicle that is already down.
Physics_CheckCollisions2D_NoSkip(p, t, l) ==
  IF ~p.mLander \/ ~p.mTerrain THEN Outcome(l, FALSE, 0, FALSE)
  ELSE Resolve2D(t, l)

\* Physics::CheckCollisions2D
Physics_CheckCollisions2D(p, t, l) ==
  IF ~p.mLander \/ ~p.mTerrain THEN Outcome(l, FALSE, 0, FALSE)
  ELSE IF l.mLanded \/ l.mCrashed THEN Outcome(l, FALSE, 0, FALSE)
  ELSE Resolve2D(t, l)

\* Variant: the position is advanced with the velocity of the step before.
Integrate2D_PositionFirst(p, l, scaledDeltaTime) ==
  LET vy == l.mVelocity[2] - RDiv(p.mGravity * scaledDeltaTime, TicksPerSecond)
      newX == l.mPosition[1] + RDiv(l.mVelocity[1] * scaledDeltaTime, TicksPerSecond)
      newY == l.mPosition[2] + RDiv(l.mVelocity[2] * scaledDeltaTime, TicksPerSecond)
  IN  SetPosition([l EXCEPT !.mVelocity[2] = vy], newX, newY, 0)

\* Variant: the thrust components are exchanged.
Integrate2D_HeadingSwapped(p, l, scaledDeltaTime) ==
  LET vy0 == l.mVelocity[2] - RDiv(p.mGravity * scaledDeltaTime, TicksPerSecond)
      thrustAccel == RDiv(RDiv(ThrustToWeightTenths * p.mGravity, 10) * l.mThrustLevel, Milli)
      vx == IF l.mThrustActive
            THEN l.mVelocity[1]
                   + RDiv(RDiv(Cos(l.mRotation[3]) * thrustAccel, Milli) * scaledDeltaTime,
                          TicksPerSecond)
            ELSE l.mVelocity[1]
      vy == IF l.mThrustActive
            THEN vy0 + RDiv(RDiv(-Sin(l.mRotation[3]) * thrustAccel, Milli) * scaledDeltaTime,
                            TicksPerSecond)
            ELSE vy0
      newX == l.mPosition[1] + RDiv(vx * scaledDeltaTime, TicksPerSecond)
      newY == l.mPosition[2] + RDiv(vy * scaledDeltaTime, TicksPerSecond)
  IN  SetPosition([l EXCEPT !.mVelocity[1] = vx, !.mVelocity[2] = vy], newX, newY, 0)

\* The integration of Physics::Update2D (Physics.cpp:490-519).
Integrate2D(p, l, scaledDeltaTime) ==
  LET vy0 == l.mVelocity[2] - RDiv(p.mGravity * scaledDeltaTime, TicksPerSecond)
      rotZ == l.mRotation[3]
      thrustX == -Sin(rotZ)
      thrustY == Cos(rotZ)
      maxThrust == mMass * RDiv(ThrustToWeightTenths * p.mGravity, 10)
      thrustAccel == RDiv(RDiv(maxThrust, Milli) * l.mThrustLevel, mMass)
      vx == IF l.mThrustActive
            THEN l.mVelocity[1]
                   + RDiv(RDiv(thrustX * thrustAccel, Milli) * scaledDeltaTime, TicksPerSecond)
            ELSE l.mVelocity[1]
      vy == IF l.mThrustActive
            THEN vy0 + RDiv(RDiv(thrustY * thrustAccel, Milli) * scaledDeltaTime, TicksPerSecond)
            ELSE vy0
      newX == l.mPosition[1] + RDiv(vx * scaledDeltaTime, TicksPerSecond)
      newY == l.mPosition[2] + RDiv(vy * scaledDeltaTime, TicksPerSecond)
  IN  SetPosition([l EXCEPT !.mVelocity[1] = vx, !.mVelocity[2] = vy], newX, newY, 0)

\* Physics::Update2D(deltaTime)
Physics_Update2D(p, t, l, deltaTime) ==
  IF ~p.mLander \/ ~p.mTerrain THEN Outcome(l, FALSE, 0, FALSE)
  ELSE LET scaledDeltaTime == deltaTime * p.mTimeScale
           l1 == IF ~l.mLanded /\ ~l.mCrashed
                 THEN Integrate2D(p, l, scaledDeltaTime)
                 ELSE l
       IN  Physics_CheckCollisions2D(p, t, l1)

(***************************************************************************)
(* Rigid-body mode.  The dynamics world is the Bullet library: one          *)
(* stepSimulation call is an arbitrary choice among the results below.      *)
(***************************************************************************)
BodyVelocities ==
  { << 0, -1 * Meter, 0 >>, << 0, -2 * Meter, 0 >>, << 1 * Meter, -1 * Meter, 0 >> }

BodyPositions == { << 20 * Meter, 10 * Meter, 20 * Meter >>,
                   << 20 * Meter, 3 * Meter, 20 * Meter >> }

\* What the world's dispatcher reports for the lander body: no contact, or
\* a contact with the terrain body on a triangle that is, or is not,
\* flagged as landing pad.
Contacts == { "none", "pad", "offpad" }

\* mDynamicsWorld->stepSimulation: a body of mass 0 is static and stays.
StepSimulation(p) ==
  IF ~p.mDynamicsWorld \/ ~p.mLanderRigidBody.exists \/ p.mLanderRigidBody.static
  THEN { p }
  ELSE { [p EXCEPT !.mLanderRigidBody.pos = x, !.mLanderRigidBody.vel = v, !.manifold = c] :
           x \in BodyPositions, v \in BodyVelocities, c \in Contacts }

\* Physics::SyncLanderWithPhysics (the body is never turned: rotation 0).
SyncLanderWithPhysics(p, l) ==
  IF ~p.mLanderRigidBody.exists THEN l
  ELSE [l EXCEPT !.mPosition = p.mLanderRigidBody.pos,
                 !.mRotation = << 0, 0, 0 >>,
                 !.mVelocity = p.mLanderRigidBody.vel]

Sq(a) == a * a

\* Physics::CheckCollisions3D; the result also carries the Physics object,
\* whose rigid body a landing changes.
Physics_CheckCollisions3D(p, l) ==
  IF ~p.mLander \/ ~p.mLanderRigidBody.exists
  THEN [ physics |-> p, lander |-> l, ret |-> FALSE ]
  ELSE IF l.mLanded \/ l.mCrashed
  THEN [ physics |-> p, lander |-> l, ret |-> FALSE ]
  ELSE LET velocity == p.mLanderRigidBody.vel
           verticalVelocity == velocity[2]
           \* horizontalVelocity < safe, compared on the squares (mm/s)
           safeHorizontal == Sq(RDiv(velocity[1], 100)) + Sq(RDiv(velocity[3], 100))
                               < Sq(RDiv(safeHorizontalVelocity, 100))
           safeVertical == verticalVelocity > -safeVerticalVelocity
                             /\ verticalVelocity < safeVerticalVelocity
           isColliding == p.manifold # "none"
           \* every contact with the terrain body counts as landing pad
           isLandingPad == p.manifold \in { "pad", "offpad" }
           isValidLanding == isColliding /\ isLandingPad /\ safeVertical /\ safeHorizontal
       IN  IF isColliding
           THEN IF isValidLanding
                THEN [ physics |-> [p EXCEPT !.mLanderRigidBody.vel = << 0, 0, 0 >>,
                                             !.mLanderRigidBody.static = TRUE],
                       lander |-> [l EXCEPT !.mLanded = TRUE], ret |-> TRUE ]
                ELSE [ physics |-> p, lander |-> [l EXCEPT !.mCrashed = TRUE], ret |-> TRUE ]
           ELSE [ physics |-> p, lander |-> l, ret |-> FALSE ]

\* One result of Physics::Update or Physics::CheckCollisions: the Physics
\* object, the vehicle, and the segment recorded for the 2D contact.
Result(p, l, seg) == [ physics |-> p, lander |-> l, seg |-> seg ]

From2D(p, o, oldSeg) == Result(p, o.lander, IF o.ran THEN o.seg ELSE oldSeg)

\* Physics::Update(deltaTime): the set of its possible results.
Physics_Update(p, t, l, deltaTime, oldSeg) ==
  LET scaledDeltaTime == deltaTime * p.mTimeScale
  IN  IF p.m3DMode
      THEN { LET c == Physics_CheckCollisions3D(p1, SyncLanderWithPhysics(p1, l))
             IN  Result(c.physics, c.lander, oldSeg) : p1 \in StepSimulation(p) }
      ELSE { From2D(p, Physics_Update2D(p, t, l, scaledDeltaTime), oldSeg) }

\* Physics::CheckCollisions
Physics_CheckCollisions(p, t, l, oldSeg) ==
  IF p.m3DMode
  THEN LET c == Physics_CheckCollisions3D(p, l) IN Result(c.physics, c.lander, oldSeg)
  ELSE From2D(p, Physics_CheckCollisions2D(p, t, l), oldSeg)

(***************************************************************************)
(* Game  (Game.cpp)                                                         *)
(***************************************************************************)
\* The lander part of Game::Reset (Game.cpp:188-209).
Game_ResetLander(l, use3D) ==
  LET centerX == RDiv(mWindowWidth * Meter, 2 * mPixelsPerMeter)
      centerZ == RDiv(mWindowWidth * Meter, 2 * mPixelsPerMeter)
      l1 == Lander_Reset(l)
      l2 == IF use3D THEN SetPosition(l1, centerX, startHeight, centerZ)
                     ELSE SetPosition(l1, centerX, startHeight, 0)
  IN  [l2 EXCEPT !.mVelocity = << 0, 0, IF use3D THEN 0 ELSE l2.mVelocity[3] >>]

\* The terrain part of Game::Reset (Game.cpp:212-221).
Game_ResetTerrain(use3D, rnd) ==
  IF use3D
  THEN NoSegments(CDiv(mWindowWidth, mPixelsPerMeter), CDiv(mWindowHeight, mPixelsPerMeter))
  ELSE Generate2D(mWindowWidth, mWindowHeight, rnd)

(***************************************************************************)
(* Inputs                                                                   *)
(***************************************************************************)
\* deltaTime of Physics::Update, in ticks (the driver caps a frame at 0.1 s).
PhysicsDts == { 0, 1, 5 }

\* deltaTime of Lander::Update, in ticks: 1 s, 2 s and 120 s besides 0.
LanderDts == { 0, 10, 20, 1200 }

\* amount of Lander::ApplyThrust, in thousandths.
ThrustAmounts == { -500, 0, 500, 1000, 1500 }

\* amount of RotateLeft / RotateRight, in degrees (the driver passes 2).
RotateAmounts == { 2, 90, -2 }

\* Where a caller puts the vehicle through Entity::SetPosition and the
\* float* of Lander::GetVelocity, as Game::Reset does: beside the pad, on
\* the edge between segment 3 and the pad, on the pad, beyond the terrain.
PlaceX == { 10 * Meter, 16 * Meter, 22 * Meter, 41 * Meter }
PlaceY == { 325 * (Meter \div 100), 350 * (Meter \div 100) }
PlaceVX == { 0, 1 * Meter, 11 * (Meter \div 10), -11 * (Meter \div 10) }
PlaceVY == { -1 * Meter, -2 * Meter, -21 * (Meter \div 10), 21 * (Meter \div 10) }

\* The velocities given: one component takes each of its values while the
\* other is within its safe bound, and both are on their bounds at once.
PlaceV ==
  { v \in PlaceVX \X PlaceVY :
      v[1] = 0 \/ v[2] = -1 * Meter \/ v = << 1 * Meter, -2 * Meter >> }

(***************************************************************************)
(* Initial state: main() has run Game::Game, SetRenderingMode and           *)
(* Game::Initialize, which ends with Game::Reset.                           *)
(***************************************************************************)
\* The kinds of object the engine allocates for the rigid-body world.
WorldKinds ==
  { "collisionConfiguration", "dispatcher", "broadphase", "solver", "dynamicsWorld",
    "softBodyCollisionConfiguration", "softDispatcher", "softRigidDynamicsWorld" }

BodyKinds == { "rigidBody", "collisionShape", "motionState" }

HeapKinds == WorldKinds \cup BodyKinds \cup { "triangleMesh", "softBody" }

\* Physics::Physics: every pointer is null, mTerrainRigidBodies is empty.
EmptyHeap ==
  [ live |-> [k \in HeapKinds |-> 0], freedTwice |-> FALSE, mTerrainRigidBodies |-> 0 ]

\* Game::Game and Game::Initialize: the statistic is 0, the loop runs, the
\* difficulty is NORMAL (Game.cpp:20-33, 86).
NewGame == [ mFuelUsed |-> 0, mIsRunning |-> TRUE, mDifficulty |-> "NORMAL" ]

\* No iteration of Game::Run has been made.
NoFrame == [ start |-> "FLYING", stepped |-> FALSE, destroyedInCall |-> FALSE ]

\* No query with a null vehicle was made, or it returned false.
ReturnedFalse == [ ret |-> FALSE, fault |-> FALSE ]

InitGame ==
  /\ game3DMode \in BOOLEAN
  /\ mLander = Game_ResetLander(NewLander, game3DMode)
  /\ \E rnd \in RandPatterns : mTerrain = Game_ResetTerrain(game3DMode, rnd)
  /\ mGameState = "FLYING"
  /\ op = "Game::Initialize"
  /\ arg = << >>
  /\ hitSeg = 0
  /\ wasTerminal = FALSE
  /\ burned = 0
  /\ nullQuery = ReturnedFalse
  /\ heap = EmptyHeap
  /\ faulted = FALSE
  /\ mGame = NewGame
  /\ frame = NoFrame
  /\ nOps = 0

Init == InitGame /\ mPhysics = NewPhysics

\* Physics::InitializeBulletPhysics: CleanupBulletPhysics has removed the
\* bodies, and the dynamics world exists.
InitializeBulletPhysics(p) ==
  [p EXCEPT !.mDynamicsWorld = TRUE, !.mLanderRigidBody = NoBody, !.manifold = "none"]

\* Physics::CreateLanderRigidBody: a dynamic body at the vehicle's place.
CreateLanderRigidBody(p, l) ==
  [p EXCEPT !.mLanderRigidBody =
     [ exists |-> TRUE, pos |-> l.mPosition, vel |-> << 0, 0, 0 >>, static |-> FALSE ]]

\* The engine in rigid-body mode: m3DMode set, Initialize() run before the
\* vehicle is registered.  No caller in the repository sets Physics::m3DMode,
\* so Spec never reaches these states; InitRigid also starts the engine in
\* the mode of the driver, the configuration the rigid-body code is written for.
RigidPhysics ==
  CreateLanderRigidBody(InitializeBulletPhysics([NewPhysics EXCEPT !.m3DMode = TRUE]), NewLander)

InitRigid == InitGame /\ mPhysics \in { NewPhysics, IF game3DMode THEN RigidPhysics ELSE NewPhysics }

(***************************************************************************)
(* Operations                                                               *)
(***************************************************************************)
Terminal(l) == l.mLanded \/ l.mCrashed

Did(name, a) ==
  /\ op' = name
  /\ arg' = a
  /\ wasTerminal' = Terminal(mLander)
  /\ ~nullQuery.fault
  /\ nullQuery' = nullQuery
  /\ heap' = heap
  /\ faulted' = faulted
  /\ mGame' = mGame
  /\ frame' = frame
  /\ nOps' = nOps + 1

LanderUpdate(dt) ==
  /\ nOps < MaxOps
  /\ mLander' = Lander_Update(mLander, dt)
  /\ burned' = IF mLander.mThrustActive /\ mLander.mFuel > 0
               THEN burned + mLander.mThrustLevel * dt
               ELSE burned
  /\ Did("Lander::Update", << dt >>)
  /\ UNCHANGED << mTerrain, mPhysics, mGameState, game3DMode, hitSeg >>

LanderApplyThrust(amount) ==
  /\ nOps < MaxOps
  /\ mLander' = Lander_ApplyThrust(mLander, amount)
  /\ Did("Lander::ApplyThrust", << amount >>)
  /\ UNCHANGED << mTerrain, mPhysics, mGameState, game3DMode, hitSeg, burned >>

LanderRotateLeft(amount) ==
  /\ nOps < MaxOps
  /\ mLander' = Lander_RotateLeft(mLander, amount)
  /\ Did("Lander::RotateLeft", << amount >>)
  /\ UNCHANGED << mTerrain, mPhysics, mGameState, game3DMode, hitSeg, burned >>

LanderRotateRight(amount) ==
  /\ nOps < MaxOps
  /\ mLander' = Lander_RotateRight(mLander, amount)
  /\ Did("Lander::RotateRight", << amount >>)
  /\ UNCHANGED << mTerrain, mPhysics, mGameState, game3DMode, hitSeg, burned >>

\* A caller sets position and velocity of a vehicle in flight, before the
\* first step (in rigid-body mode the place is the body's: every step
\* copies it over the vehicle's).
PlaceLander(x, y, vx, vy) ==
  /\ nOps = 0
  /\ ~mPhysics.m3DMode
  /\ ~mLander.mLanded /\ ~mLander.mCrashed
  /\ mLander' = [SetPosition(mLander, x, y, 0) EXCEPT !.mVelocity = << vx, vy, 0 >>]
  /\ Did("Entity::SetPosition", << x, y, vx, vy >>)
  /\ UNCHANGED << mTerrain, mPhysics, mGameState, game3DMode, hitSeg, burned >>

PhysicsUpdate(dt) ==
  /\ nOps < MaxOps
  /\ \E r \in Physics_Update(mPhysics, mTerrain, mLander, dt, hitSeg) :
       /\ mPhysics' = r.physics
       /\ mLander' = r.lander
       /\ hitSeg' = r.seg
  /\ Did("Physics::Update", << dt >>)
  /\ UNCHANGED << mTerrain, mGameState, game3DMode, burned >>

PhysicsCheckCollisions ==
  /\ nOps < MaxOps
  /\ LET r == Physics_CheckCollisions(mPhysics, mTerrain, mLander, hitSeg)
     IN  /\ mPhysics' = r.physics
         /\ mLander' = r.lander
         /\ hitSeg' = r.seg
  /\ Did("Physics::CheckCollisions", << >>)
  /\ UNCHANGED << mTerrain, mGameState, game3DMode, burned >>

\* A reset starts a new flight: the bookkeeping starts over.
Restart(name) ==
  /\ op' = name
  /\ arg' = << >>
  /\ wasTerminal' = Terminal(mLander)
  /\ hitSeg' = 0
  /\ burned' = 0
  /\ ~nullQuery.fault
  /\ nullQuery' = nullQuery
  /\ heap' = heap
  /\ faulted' = faulted
  /\ mGame' = IF name = "Lander::Reset" THEN mGame ELSE [mGame EXCEPT !.mFuelUsed = 0]
  /\ frame' = frame
  /\ nOps' = 0

LanderReset ==
  /\ op # "Lander::Reset"
  /\ mLander' = Lander_Reset(mLander)
  /\ Restart("Lander::Reset")
  /\ UNCHANGED << mTerrain, mPhysics, mGameState, game3DMode >>

GameReset ==
  /\ op # "Game::Reset"
  /\ mGameState' = "FLYING"
  /\ mLander' = Game_ResetLander(mLander, game3DMode)
  /\ \E rnd \in RandPatterns : mTerrain' = Game_ResetTerrain(game3DMode, rnd)
  /\ Restart("Game::Reset")
  /\ UNCHANGED << mPhysics, game3DMode >>

\* Game::OnKeyDown(SDLK_TAB): SetRenderingMode(!m3DMode) on the running game,
\* that is Shutdown() and Initialize(): a new Lander, Terrain and Physics,
\* registered, and Game::Reset at the end of Initialize.
GameSetRenderingMode(use3D) ==
  /\ game3DMode # use3D
  /\ game3DMode' = use3D
  /\ mGameState' = "FLYING"
  /\ mLander' = Game_ResetLander(NewLander, use3D)
  /\ \E rnd \in RandPatterns : mTerrain' = Game_ResetTerrain(use3D, rnd)
  /\ mPhysics' = NewPhysics
  /\ Restart("Game::SetRenderingMode")

Next ==
  \/ \E dt \in LanderDts : LanderUpdate(dt)
  \/ \E a \in ThrustAmounts : LanderApplyThrust(a)
  \/ \E a \in RotateAmounts : LanderRotateLeft(a)
  \/ \E a \in RotateAmounts : LanderRotateRight(a)
  \/ \E x \in PlaceX, y \in PlaceY, v \in PlaceV : PlaceLander(x, y, v[1], v[2])
  \/ \E dt \in PhysicsDts : PhysicsUpdate(dt)
  \/ PhysicsCheckCollisions
  \/ LanderReset
  \/ GameReset
  \/ GameSetRenderingMode(~game3DMode)

\* The program as written.
Spec == Init /\ [][Next]_vars

\* The program, and the program with the engine in the driver's 3D mode.
SpecRigid == InitRigid /\ [][Next]_vars

(***************************************************************************)
(* Null references                                                          *)
(***************************************************************************)
\* Physics::Physics alone: RegisterLander or RegisterTerrain, or both, have
\* not been called (mLander == nullptr, mTerrain == nullptr).
Unregistered ==
  { [NewPhysics EXCEPT !.mLander = r[1], !.mTerrain = r[2]] :
      r \in { << FALSE, FALSE >>, << FALSE, TRUE >>, << TRUE, FALSE >> } }

InitNull == InitGame /\ mPhysics \in Unregistered

\* The terrain queries that take the vehicle as Lander*.
NullQueries ==
  { "Terrain::CheckCollision2D", "Terrain::IsValidLanding2D",
    "Terrain::CheckCollision3D", "Terrain::IsValidLanding3D" }

\* What a query called with lander == nullptr can do.  The 2D queries start
\* with "if (!lander) return false".  The 3D queries start with
\* lander->GetPosition() and read landerPos[0]: a read through a null pointer,
\* which ends the process or yields any value.
QueryNullVehicle(q) ==
  IF q \in { "Terrain::CheckCollision2D", "Terrain::IsValidLanding2D" }
  THEN { ReturnedFalse }
  ELSE { [ ret |-> r, fault |-> f ] : r \in BOOLEAN, f \in BOOLEAN }

TerrainQueryNull(q) ==
  /\ nOps < MaxOps
  /\ ~nullQuery.fault
  /\ nullQuery' \in QueryNullVehicle(q)
  /\ op' = q
  /\ arg' = << >>
  /\ wasTerminal' = Terminal(mLander)
  /\ nOps' = nOps + 1
  /\ UNCHANGED << mLander, mTerrain, mPhysics, mGameState, game3DMode, hitSeg, burned, heap, faulted,
                  mGame, frame >>

\* The operations on an engine without vehicle or terrain, and the queries
\* without vehicle (after a fatal error no operation runs).
NextNull ==
  \/ \E x \in PlaceX, y \in PlaceY, v \in PlaceV : PlaceLander(x, y, v[1], v[2])
  \/ \E dt \in PhysicsDts : PhysicsUpdate(dt)
  \/ PhysicsCheckCollisions
  \/ \E q \in NullQueries : TerrainQueryNull(q)
  \/ LanderReset

SpecNull == InitNull /\ [][NextNull]_vars

(***************************************************************************)
(* Free fall  (physics_test.cpp, Physics::Update2D)                         *)
(***************************************************************************)
\* The gravities Game::SetDifficulty selects: 1.0, 1.62 and 2.0 m/s^2.
FallGravities == { 100 * Milli, LunarGravity, 200 * Milli }

\* Initial heights of the vehicle's bottom above the ground: 1 m, 5 m (the
\* drop of physics_test.cpp) and 16.75 m (the start of Game::Reset).
FallHeights == { 1 * Meter, 5 * Meter, 1675 * (Meter \div 100) }

\* The fixed step, in ticks.
FallDts == { 1, 2, 5 }

\* The terrain height under the vehicle: that of the first segment over it.
GroundBelow(t, l) ==
  LET over == { k \in DOMAIN t.mSegments2D : Contains(t.mSegments2D[k], l) }
      k == CHOOSE h \in over : \A j \in over : h <= j
  IN  TerrainHeightMeters(t, t.mSegments2D[k], l)

\* The vehicle of Game::Reset at rest, thrust off, with its bottom h above
\* the ground; arg keeps the step and the height.
InitFall ==
  /\ game3DMode = FALSE
  /\ mGameState = "FLYING"
  /\ \E rnd \in RandPatterns : mTerrain = Game_ResetTerrain(FALSE, rnd)
  /\ \E g \in FallGravities : mPhysics = [NewPhysics EXCEPT !.mGravity = g]
  /\ \E dt \in FallDts, h \in FallHeights :
       LET l == Game_ResetLander(NewLander, FALSE)
       IN  /\ arg = << dt, h >>
           /\ mLander = SetPosition(l, l.mPosition[1],
                                    l.mPosition[2] - LanderBottomY(l) + GroundBelow(mTerrain, l) + h, 0)
  /\ op = "Physics::SetGravity"
  /\ hitSeg = 0
  /\ wasTerminal = FALSE
  /\ burned = 0
  /\ nullQuery = ReturnedFalse
  /\ heap = EmptyHeap
  /\ faulted = FALSE
  /\ mGame = NewGame
  /\ frame = NoFrame
  /\ nOps = 0

\* One iteration of the fall: Physics::Update(dt) while the vehicle is up;
\* nOps counts the steps.
FreeFallStep ==
  /\ ~Terminal(mLander)
  /\ \E r \in Physics_Update(mPhysics, mTerrain, mLander, arg[1], hitSeg) :
       /\ mLander' = r.lander
       /\ mPhysics' = r.physics
       /\ hitSeg' = r.seg
  /\ op' = "Physics::Update"
  /\ wasTerminal' = FALSE
  /\ nOps' = nOps + 1
  /\ UNCHANGED << mTerrain, mGameState, game3DMode, arg, burned, nullQuery, heap, faulted,
                  mGame, frame >>

NextFall == FreeFallStep

SpecFall == InitFall /\ [][NextFall]_vars

(***************************************************************************)
(* Time scale                                                               *)
(***************************************************************************)
\* Values of Physics::mTimeScale.  The constructor sets 1.0 and nothing in
\* the repository changes it; 2 is the engine with the scale doubled.
TimeScales == { 1, 2 }

InitScaled ==
  /\ InitGame
  /\ \E s \in TimeScales : mPhysics = [NewPhysics EXCEPT !.mTimeScale = s]

SpecScaled == InitScaled /\ [][Next]_vars

(***************************************************************************)
(* The rigid-body world's objects  (Physics.cpp:29-131, 182-384)            *)
(***************************************************************************)
MaxBulletOps == 5

\* new: one more object of each kind in ks.
Alloc(h, ks) ==
  [h EXCEPT !.live = [k \in HeapKinds |-> IF k \in ks THEN @[k] + 1 ELSE @[k]]]

\* delete through a non-null pointer: one object less of each kind in ks; a
\* kind of which nothing is allocated was deleted before.
Free(h, ks) ==
  [h EXCEPT !.live = [k \in HeapKinds |-> IF k \in ks /\ @[k] > 0 THEN @[k] - 1 ELSE @[k]],
            !.freedTwice = @ \/ \E k \in ks : h.live[k] = 0]

\* The body, its motion state and its shape are deleted if the pointer is set
\* (Physics.cpp:83-91, 185-192).
DeleteLanderBody(p, h) == IF p.mLanderRigidBody.exists THEN Free(h, BodyKinds) ELSE h

\* for (auto body : mTerrainRigidBodies) { delete ... }; clear()
\* (Physics.cpp:93-101, 242-248).  The triangle mesh of the shape is not
\* deleted: btBvhTriangleMeshShape does not own its mesh interface.
RECURSIVE DeleteBodies(_, _)
DeleteBodies(h, n) == IF n = 0 THEN h ELSE DeleteBodies(Free(h, BodyKinds), n - 1)

DeleteTerrainBodies(h) ==
  [DeleteBodies(h, h.mTerrainRigidBodies) EXCEPT !.mTerrainRigidBodies = 0]

\* The members deleted at Physics.cpp:104-110 (delete of a null pointer does
\* nothing).  The dispatcher of the soft-body world is a local of
\* InitializeBulletPhysics (line 74), and btSoftRigidDynamicsWorld deletes
\* neither its dispatcher nor the soft bodies added to it.
DeletedMembers == WorldKinds \ { "softDispatcher" }

Heap_CleanupBulletPhysics(p, h) ==
  LET h1 == DeleteTerrainBodies(DeleteLanderBody(p, h))
  IN  IF p.mDynamicsWorld THEN Free(h1, DeletedMembers) ELSE h1

\* Physics::CleanupBulletPhysics on the members of the engine.
CleanupBulletPhysics(p) ==
  [p EXCEPT !.mDynamicsWorld = FALSE, !.mLanderRigidBody = NoBody, !.manifold = "none"]

\* Physics::InitializeBulletPhysics (Physics.cpp:43-79).
Heap_InitializeBulletPhysics(p, h) == Alloc(Heap_CleanupBulletPhysics(p, h), WorldKinds)

\* Physics::CreateLanderRigidBody (Physics.cpp:182-235).
Heap_CreateLanderRigidBody(p, h) == Alloc(DeleteLanderBody(p, h), BodyKinds)

\* Physics::CreateTerrainRigidBodies (Physics.cpp:238-291); triangles: whether
\* the terrain has 3D triangles.
Heap_CreateTerrainRigidBodies(h, triangles) ==
  LET h1 == DeleteTerrainBodies(h)
  IN  IF triangles
      THEN [Alloc(h1, BodyKinds \cup { "triangleMesh" }) EXCEPT !.mTerrainRigidBodies = 1]
      ELSE h1

\* Physics::CreateRegolithSoftBody (Physics.cpp:294-384): a generated 3D
\* terrain has landing-pad triangles, so CreatePatch makes a soft body, which
\* is added to the soft-body world and to nothing else.
Heap_CreateRegolithSoftBody(h, triangles) ==
  IF triangles THEN Alloc(h, { "softBody" }) ELSE h

\* The engine with Physics::m3DMode set, just constructed.
InitBullet ==
  /\ InitGame
  /\ mPhysics = [NewPhysics EXCEPT !.m3DMode = TRUE, !.mLander = FALSE, !.mTerrain = FALSE]

BulletDid(name, a) ==
  /\ nOps < MaxBulletOps
  /\ op # "Physics::~Physics"
  /\ op' = name
  /\ arg' = a
  /\ nOps' = nOps + 1
  /\ UNCHANGED << mLander, mTerrain, mGameState, game3DMode, hitSeg, wasTerminal,
                  burned, nullQuery, faulted, mGame, frame >>

\* Physics::Initialize (Physics.cpp:33-41).
BulletInitialize ==
  /\ mPhysics' = IF mPhysics.m3DMode THEN InitializeBulletPhysics(mPhysics) ELSE mPhysics
  /\ heap' = IF mPhysics.m3DMode THEN Heap_InitializeBulletPhysics(mPhysics, heap) ELSE heap
  /\ BulletDid("Physics::Initialize", << >>)

\* Physics::RegisterLander (Physics.cpp:121-128).
BulletRegisterLander ==
  LET p == [mPhysics EXCEPT !.mLander = TRUE]
      create == p.m3DMode /\ p.mDynamicsWorld
  IN  /\ mPhysics' = IF create THEN CreateLanderRigidBody(p, mLander) ELSE p
      /\ heap' = IF create THEN Heap_CreateLanderRigidBody(p, heap) ELSE heap
      /\ BulletDid("Physics::RegisterLander", << >>)

\* Physics::RegisterTerrain (Physics.cpp:130-138).
BulletRegisterTerrain(triangles) ==
  LET p == [mPhysics EXCEPT !.mTerrain = TRUE]
      create == p.m3DMode /\ p.mDynamicsWorld
  IN  /\ mPhysics' = p
      /\ heap' = IF create
                 THEN Heap_CreateRegolithSoftBody(
                        Heap_CreateTerrainRigidBodies(heap, triangles), triangles)
                 ELSE heap
      /\ BulletDid("Physics::RegisterTerrain", << triangles >>)

\* Physics::~Physics (Physics.cpp:29-31): the engine is gone afterwards.
BulletDestroy ==
  /\ mPhysics' = CleanupBulletPhysics(mPhysics)
  /\ heap' = Heap_CleanupBulletPhysics(mPhysics, heap)
  /\ BulletDid("Physics::~Physics", << >>)

NextBullet ==
  \/ BulletInitialize
  \/ BulletRegisterLander
  \/ \E triangles \in BOOLEAN : BulletRegisterTerrain(triangles)
  \/ BulletDestroy

SpecBullet == InitBullet /\ [][NextBullet]_vars

(***************************************************************************)
(* Terrain generation  (Terrain.cpp:31-77, 194-284)                         *)
(***************************************************************************)
MaxGenOps == 2

\* width of Generate2D, in pixels: below, at and between the multiples of
\* segmentCount, and the window's width.
GenWidths == { 1, 9, 10, 15, 20, 100, 795, 800, 805 }

\* height of Generate2D, in pixels.
GenHeights == { 50, 600 }

\* const int gridSize = 20 of Generate3D.
gridSize == 20

\* The rand() % 20 draws of one Generate3D call, by vertex of the height map.
RandPatterns3D ==
  { [i \in 0..((gridSize + 1) * (gridSize + 1) - 1) |-> 10],
    [i \in 0..((gridSize + 1) * (gridSize + 1) - 1) |-> 0],
    [i \in 0..((gridSize + 1) * (gridSize + 1) - 1) |-> (7 * i) % 20] }

\* x > gridSize / 3 && x < 2 * gridSize / 3 && z > gridSize / 3 && z < 2 * gridSize / 3
InCentre(x, z) ==
  /\ x > CDiv(gridSize, 3) /\ x < CDiv(2 * gridSize, 3)
  /\ z > CDiv(gridSize, 3) /\ z < CDiv(2 * gridSize, 3)

\* mHeightData[z * (gridSize + 1) + x] (Terrain.cpp:210-224), in Meter units.
HeightData(height, rnd, x, z) ==
  IF InCentre(x, z)
  THEN (height - 50) * Meter
  ELSE (height - 50 + rnd[z * (gridSize + 1) + x] - 10) * Meter

\* The two triangles of grid cell (x, z) (Terrain.cpp:226-283).
CellTriangles(width, length, height, rnd, x, z) ==
  LET cw(i) == RDiv(i * width * Meter, gridSize)
      cl(i) == RDiv(i * length * Meter, gridSize)
      h1 == HeightData(height, rnd, x, z)
      h2 == HeightData(height, rnd, x + 1, z)
      h3 == HeightData(height, rnd, x, z + 1)
      h4 == HeightData(height, rnd, x + 1, z + 1)
      pad == InCentre(x, z)
  IN  << [ vertices |-> << cw(x), h1, cl(z), cw(x + 1), h2, cl(z), cw(x), h3, cl(z + 1) >>,
           isLandingPad |-> pad ],
         [ vertices |-> << cw(x), h3, cl(z + 1), cw(x + 1), h2, cl(z), cw(x + 1), h4, cl(z + 1) >>,
           isLandingPad |-> pad ] >>

\* mTriangles3D after Terrain::Generate3D: cell (x, z) pushes the triangles
\* number 2 * (z * gridSize + x) + 1 and + 2.
Triangles3D(width, length, height, rnd) ==
  [ n \in 1..(2 * gridSize * gridSize) |->
      LET c == (n - 1) \div 2
      IN  CellTriangles(width, length, height, rnd, c % gridSize, c \div gridSize)[((n - 1) % 2) + 1] ]

\* The terrain with its 3D members.
With3D(t, length, triangles) ==
  [ mWidth |-> t.mWidth, mHeight |-> t.mHeight, mSegments2D |-> t.mSegments2D,
    mLength |-> length, mTriangles3D |-> triangles ]

\* Terrain::Generate3D(width, length, height); the 2D segments are kept.
Generate3D(t, width, length, height, rnd) ==
  With3D([t EXCEPT !.mWidth = width, !.mHeight = height], length,
         Triangles3D(width, length, height, rnd))

\* width, length (equal in the driver) and height of Generate3D: the
\* driver's 40 x 40 x 30, and a larger terrain.
GenSizes3D == { << 40, 30 >>, << 20, 30 >>, << 40, 600 >> }

\* A Terrain just constructed (Terrain.cpp:12-20), nothing generated yet.
InitGen ==
  /\ game3DMode = FALSE
  /\ mGameState = "FLYING"
  /\ mLander = NewLander
  /\ mTerrain = With3D(NoSegments(mWindowWidth, mWindowHeight), mWindowWidth, << >>)
  /\ mPhysics = NewPhysics
  /\ op = "Terrain::Terrain"
  /\ arg = << >>
  /\ hitSeg = 0
  /\ wasTerminal = FALSE
  /\ burned = 0
  /\ nullQuery = ReturnedFalse
  /\ heap = EmptyHeap
  /\ faulted = FALSE
  /\ mGame = NewGame
  /\ frame = NoFrame
  /\ nOps = 0

GenDid(name, a) ==
  /\ nOps < MaxGenOps
  /\ ~faulted
  /\ op' = name
  /\ arg' = a
  /\ nOps' = nOps + 1
  /\ UNCHANGED << mLander, mPhysics, mGameState, game3DMode, hitSeg, wasTerminal,
                  burned, nullQuery, heap, mGame, frame >>

\* Terrain::Generate2D(width, height)
TerrainGenerate2D(width, height) ==
  /\ GenDid("Terrain::Generate2D", << width, height >>)
  /\ \E rnd \in RandPatterns :
       \E r \in Terrain_Generate2D(width, height, rnd) :
         /\ mTerrain' = With3D(r.terrain, mTerrain.mLength, mTerrain.mTriangles3D)
         /\ faulted' = r.faulted

\* Terrain::Generate3D(width, length, height)
TerrainGenerate3D(width, length, height) ==
  /\ GenDid("Terrain::Generate3D", << width, length, height >>)
  /\ \E rnd \in RandPatterns3D : mTerrain' = Generate3D(mTerrain, width, length, height, rnd)
  /\ faulted' = faulted

NextGen ==
  \/ \E width \in GenWidths, height \in GenHeights : TerrainGenerate2D(width, height)
  \/ \E sz \in GenSizes3D : TerrainGenerate3D(sz[1], sz[1], sz[2])

SpecGen == InitGen /\ [][NextGen]_vars

(***************************************************************************)
(* The game loop  (Game.cpp:93-121, 166-317, 392-424; InputHandler.cpp)     *)
(*                                                                          *)
(* One iteration of Game::Run is ProcessInput(), Update(deltaTime) and      *)
(* Render().  The operators below work on the objects of the game taken     *)
(* together: the vehicle, the terrain, the engine, Game::mGameState and     *)
(* m3DMode, the further Game members, and what the iteration has done.      *)
(* mScore and mElapsedTime, which nothing reads back, and the renderer are  *)
(* left out.                                                                *)
(***************************************************************************)
MaxFrames == 3

\* Physics::SetGravity argument of Game::SetDifficulty (Game.cpp:143-155).
DifficultyGravity(d) ==
  CASE d = "EASY" -> 100 * Milli
    [] d = "NORMAL" -> LunarGravity
    [] d = "HARD" -> 200 * Milli

\* Game::Reset (Game.cpp:179-222).
Game_Reset(w, rnd) ==
  [w EXCEPT !.state = "FLYING",
            !.game.mFuelUsed = 0,
            !.lander = Game_ResetLander(w.lander, w.mode3D),
            !.terrain = Game_ResetTerrain(w.mode3D, rnd),
            !.seg = 0]

\* Game::SetDifficulty (Game.cpp:139-164).
Game_SetDifficulty(w, d, rnd) ==
  Game_Reset([w EXCEPT !.game.mDifficulty = d, !.physics.mGravity = DifficultyGravity(d)], rnd)

\* Game::Shutdown followed by Game::Initialize (Game.cpp:39-91, 123-137): new
\* Lander, Terrain, Physics and InputHandler; SetDifficulty(mDifficulty);
\* terrain generated; Reset; mIsRunning = true.
Game_Reinitialize(w, rnd) ==
  [Game_SetDifficulty([w EXCEPT !.lander = NewLander, !.physics = NewPhysics],
                      w.game.mDifficulty, rnd)
     EXCEPT !.game.mIsRunning = TRUE]

\* Game::SetRenderingMode(use3D) (Game.cpp:166-177).  On the running game
\* Shutdown destroys the InputHandler; called from a key event it does so
\* while that handler's ProcessInput is executing.
Game_SetRenderingMode(w, use3D, rnd) ==
  IF w.mode3D = use3D THEN w
  ELSE IF w.game.mIsRunning
       THEN [Game_Reinitialize([w EXCEPT !.mode3D = use3D], rnd) EXCEPT !.destroyedInCall = TRUE]
       ELSE [w EXCEPT !.mode3D = use3D]

\* Game::OnKeyDown(keyCode) (Game.cpp:392-424).
Game_OnKeyDown(w, key, rnd) ==
  CASE key = "r" -> Game_Reset(w, rnd)
    [] key = "ESCAPE" -> [w EXCEPT !.game.mIsRunning = FALSE]
    [] key = "1" -> Game_SetDifficulty(w, "EASY", rnd)
    [] key = "2" -> Game_SetDifficulty(w, "NORMAL", rnd)
    [] key = "3" -> Game_SetDifficulty(w, "HARD", rnd)
    [] key = "TAB" -> Game_SetRenderingMode(w, ~w.mode3D, rnd)
    [] OTHER -> w

\* InputHandler::ProcessInput with the key-down event in.event pending
\* (InputHandler.cpp:26-59).  If the handler was destroyed by the event, the
\* while loop goes on in a freed object (it reads mGame at its next turn):
\* the process ends there or goes on as if nothing had happened.
InputHandler_ProcessInput(w, in, rnd) ==
  LET w1 == Game_OnKeyDown(w, in.event, rnd)
  IN  IF w1.destroyedInCall THEN { w1, [w1 EXCEPT !.faulted = TRUE] } ELSE { w1 }

\* The part of Game::ProcessInput after mInputHandler->ProcessInput()
\* (Game.cpp:229-271).  In "Track fuel usage" newFuel is a copy of
\* originalFuel, so nothing is ever added to mFuelUsed.
Game_HandleState(w, in, rnd) ==
  LET w1 ==
        IF w.state = "READY"
        THEN IF in.start THEN [w EXCEPT !.state = "FLYING"] ELSE w
        ELSE IF w.state = "FLYING"
        THEN LET l1 == Lander_ApplyThrust(w.lander, IF in.thrust THEN Milli ELSE 0)
                 originalFuel == l1.mFuel
                 newFuel == originalFuel
                 used == IF in.thrust /\ originalFuel > newFuel
                         THEN w.game.mFuelUsed + (originalFuel - newFuel)
                         ELSE w.game.mFuelUsed
                 l2 == IF in.rotateLeft THEN Lander_RotateLeft(l1, 2) ELSE l1
                 l3 == IF in.rotateRight THEN Lander_RotateRight(l2, 2) ELSE l2
             IN  [w EXCEPT !.lander = l3, !.game.mFuelUsed = used]
        ELSE IF in.reset THEN Game_Reset(w, rnd) ELSE w
  IN  IF in.quit THEN [w1 EXCEPT !.game.mIsRunning = FALSE] ELSE w1

\* Game::ProcessInput (Game.cpp:224-272).
Game_ProcessInput(w, in, rnd) ==
  { IF w1.faulted THEN w1 ELSE Game_HandleState(w1, in, rnd) :
      w1 \in InputHandler_ProcessInput(w, in, rnd) }

\* Variant: the game state follows the landed flag only.
Game_Update_LandedOnly(w, deltaTime) ==
  IF w.state = "FLYING"
  THEN { LET l == Lander_Update(r.lander, deltaTime)
         IN  [w EXCEPT !.physics = r.physics,
                       !.lander = l,
                       !.seg = r.seg,
                       !.stepped = TRUE,
                       !.state = IF l.mLanded THEN "LANDED" ELSE w.state] :
           r \in Physics_Update(w.physics, w.terrain, w.lander, deltaTime, w.seg) }
  ELSE { w }

\* Game::Update(deltaTime) (Game.cpp:274-317).
Game_Update(w, deltaTime) ==
  IF w.state = "FLYING"
  THEN { LET l == Lander_Update(r.lander, deltaTime)
         IN  [w EXCEPT !.physics = r.physics,
                       !.lander = l,
                       !.seg = r.seg,
                       !.stepped = TRUE,
                       !.state = IF l.mLanded THEN "LANDED"
                                 ELSE IF l.mCrashed THEN "CRASHED" ELSE w.state] :
           r \in Physics_Update(w.physics, w.terrain, w.lander, deltaTime, w.seg) }
  ELSE { w }

\* One iteration of the loop of Game::Run (Game.cpp:102-120).
Game_Frame(w, in, deltaTime, rnd) ==
  UNION { IF w1.faulted THEN { w1 } ELSE Game_Update(w1, deltaTime) :
            w1 \in Game_ProcessInput(w, in, rnd) }

\* The keyboard of one iteration: at most one key-down event, and the keys
\* held.
NoKeys ==
  [ event |-> "none", thrust |-> FALSE, rotateLeft |-> FALSE, rotateRight |-> FALSE,
    start |-> FALSE, reset |-> FALSE, quit |-> FALSE ]

FrameInputs ==
  { NoKeys,
    [NoKeys EXCEPT !.thrust = TRUE],
    [NoKeys EXCEPT !.thrust = TRUE, !.rotateLeft = TRUE],
    [NoKeys EXCEPT !.rotateRight = TRUE],
    [NoKeys EXCEPT !.reset = TRUE],
    [NoKeys EXCEPT !.event = "r", !.reset = TRUE],
    [NoKeys EXCEPT !.event = "3"],
    [NoKeys EXCEPT !.event = "TAB"],
    [NoKeys EXCEPT !.event = "ESCAPE", !.quit = TRUE] }

\* deltaTime of one iteration, in ticks: Run caps it at 0.1 s.
FrameDts == { 0, 1 }

\* The objects of the game as they are in the current state.
World ==
  [ lander |-> mLander, terrain |-> mTerrain, physics |-> mPhysics, state |-> mGameState,
    mode3D |-> game3DMode, game |-> mGame, seg |-> hitSeg,
    stepped |-> FALSE, destroyedInCall |-> FALSE, faulted |-> FALSE ]

\* One iteration of Game::Run on the running game.
GameFrame(in, deltaTime) ==
  /\ nOps < MaxFrames
  /\ ~faulted
  /\ mGame.mIsRunning
  /\ \E rnd \in RandPatterns :
       \E w \in Game_Frame(World, in, deltaTime, rnd) :
         /\ mLander' = w.lander
         /\ mTerrain' = w.terrain
         /\ mPhysics' = w.physics
         /\ mGameState' = w.state
         /\ game3DMode' = w.mode3D
         /\ mGame' = w.game
         /\ hitSeg' = w.seg
         /\ faulted' = w.faulted
         /\ frame' = [ start |-> mGameState, stepped |-> w.stepped,
                       destroyedInCall |-> w.destroyedInCall ]
  /\ op' = "Game::Run"
  /\ arg' = << in, deltaTime >>
  /\ wasTerminal' = Terminal(mLander)
  /\ nOps' = nOps + 1
  /\ UNCHANGED << burned, nullQuery, heap >>

\* The flight so far: the vehicle as the frames before have left it, or as a
\* caller of Game::GetLander has placed it.
NextGame ==
  \/ \E x \in PlaceX, y \in PlaceY, v \in PlaceV : PlaceLander(x, y, v[1], v[2])
  \/ \E in \in FrameInputs, dt \in FrameDts : GameFrame(in, dt)

SpecGame == Init /\ [][NextGame]_vars

(***************************************************************************)
(* A whole flight                                                           *)
(*                                                                          *)
(* The loop of Game::Run iterates for as long as mIsRunning holds, so a     *)
(* flight is an unbounded run of frames.  The keys are held from the first  *)
(* frame on and every frame lasts 0.1 s, the cap of Run.  A vehicle deep    *)
(* below a terrain without segments is not followed further: its position   *)
(* and velocity are kept as they are, since Terrain::CheckCollision2D, the  *)
(* only reader that could end the flight, returns false for every position. *)
(***************************************************************************)
\* Depth in metres below the origin down to which a descent over a terrain
\* without segments is followed.
MaxFall == 100

\* The keys held during a flight: none, or one of the rotation keys.
FlightInputs ==
  { NoKeys,
    [NoKeys EXCEPT !.rotateLeft = TRUE],
    [NoKeys EXCEPT !.rotateRight = TRUE] }

\* No segment of the terrain will contain the vehicle again
\* (Terrain.cpp:108-125): there is none, as after Terrain::Generate3D.
OutOfReach(t, l) ==
  Len(t.mSegments2D) = 0 /\ l.mPosition[2] < -(MaxFall * Meter)

\* One iteration of Game::Run during a flight: the keys of the first frame
\* stay held.
FlightFrame(in) ==
  /\ ~faulted
  /\ mGame.mIsRunning
  /\ op = "Game::Run" => in = arg[1]
  /\ \E rnd \in RandPatterns :
       \E w \in Game_Frame(World, in, 1, rnd) :
         /\ mLander' = IF OutOfReach(mTerrain, mLander)
                       THEN [w.lander EXCEPT !.mPosition = mLander.mPosition,
                                             !.mVelocity = mLander.mVelocity]
                       ELSE w.lander
         /\ mTerrain' = w.terrain
         /\ mPhysics' = w.physics
         /\ mGameState' = w.state
         /\ game3DMode' = w.mode3D
         /\ mGame' = w.game
         /\ hitSeg' = w.seg
         /\ faulted' = w.faulted
         /\ frame' = [ start |-> mGameState, stepped |-> w.stepped,
                       destroyedInCall |-> w.destroyedInCall ]
  /\ op' = "Game::Run"
  /\ arg' = << in, 1 >>
  /\ wasTerminal' = Terminal(mLander)
  /\ UNCHANGED << burned, nullQuery, heap, nOps >>

NextFlight == \E in \in FlightInputs : FlightFrame(in)

\* Run does not stop iterating while the game is running.
SpecFlight == Init /\ [][NextFlight]_vars /\ WF_vars(NextFlight)

(***************************************************************************)
(* Properties                                                               *)
(***************************************************************************)
PhysicsOps == { "Physics::Update", "Physics::CheckCollisions" }
\* Game::SetRenderingMode ends in the Game::Reset of Game::Initialize.
ResetOps == { "Lander::Reset", "Game::Reset", "Game::SetRenderingMode" }

\* C1: in every reachable state, after any sequence of collision checks in
\* either mode, the vehicle is not both landed and crashed.
LandedCrashedExclusive == ~(mLander.mLanded /\ mLander.mCrashed)

\* A collision check has set one of the two flags.
W_LandedCrashedExclusive ==
  /\ op \in PhysicsOps
  /\ ~wasTerminal
  /\ mLander.mLanded \/ mLander.mCrashed

\* C2: a step of the Physics Engine taken on a landed vehicle leaves it
\* landed and not crashed, one taken on a crashed vehicle leaves it crashed
\* and not landed; only a reset step clears a flag that was set, and after a
\* reset step the game is flying and both flags are false.
TerminalAbsorbing ==
  [][ /\ (mLander.mLanded /\ op' \in PhysicsOps)
          => (mLander'.mLanded /\ ~mLander'.mCrashed)
      /\ (mLander.mCrashed /\ op' \in PhysicsOps)
          => (mLander'.mCrashed /\ ~mLander'.mLanded)
      /\ (mLander.mLanded /\ ~mLander'.mLanded) => op' \in ResetOps
      /\ (mLander.mCrashed /\ ~mLander'.mCrashed) => op' \in ResetOps
      /\ op' \in ResetOps
          => (~mLander'.mLanded /\ ~mLander'.mCrashed /\ mGameState' = "FLYING")
    ]_vars

\* The Physics Engine has stepped a vehicle that was already down.
W_TerminalAbsorbing ==
  /\ op \in PhysicsOps
  /\ wasTerminal
  /\ mLander.mLanded \/ mLander.mCrashed

\* The x-coordinate, converted to pixels, lies within a segment flagged as
\* landing pad.
WithinPad(t, x) ==
  \E k \in DOMAIN t.mSegments2D :
    /\ t.mSegments2D[k].isLandingPad
    /\ t.mSegments2D[k].x1 * Meter <= x * mPixelsPerMeter
    /\ x * mPixelsPerMeter <= t.mSegments2D[k].x2 * Meter

\* The vehicle as the collision check of the step op' sees it: Update has
\* integrated the step, CheckCollisions takes the vehicle as it is.
AtCollision ==
  IF op' = "Physics::Update"
  THEN Integrate2D(mPhysics, mLander, arg'[1] * mPhysics.mTimeScale * mPhysics.mTimeScale)
  ELSE mLander

\* C3: in analytic mode, a step that detects a terrain collision sets landed
\* iff the vehicle's x, in pixels, lies within a landing-pad segment and
\* |vertical velocity| <= 2.0 m/s and |horizontal velocity| <= 1.0 m/s at the
\* collision (bounds inclusive); every other collision sets crashed.
LandedIffSafeOnPad ==
  [][ (op' \in PhysicsOps /\ ~mPhysics.m3DMode /\ ~Terminal(mLander) /\ Terminal(mLander'))
        => LET v == AtCollision.mVelocity
               safe == /\ WithinPad(mTerrain, mLander'.mPosition[1])
                       /\ Abs(v[2]) <= 2 * Meter
                       /\ Abs(v[1]) <= 1 * Meter
           IN  /\ mLander'.mLanded <=> safe
               /\ mLander'.mCrashed <=> ~safe
    ]_vars

\* A collision on a landing-pad segment was classified as a landing.
W_LandedIffSafeOnPad ==
  /\ op \in PhysicsOps
  /\ ~mPhysics.m3DMode
  /\ ~wasTerminal
  /\ mLander.mLanded
  /\ hitSeg # 0
  /\ mTerrain.mSegments2D[hitSeg].isLandingPad

\* C4: the vehicle is landed only if the terrain element on which the contact
\* was detected is flagged as landing pad: in 2D the segment whose height
\* triggered the collision, in rigid-body mode the geometry contacted.
LandedOnlyOnContactedPad ==
  mLander.mLanded =>
    IF mPhysics.m3DMode
    THEN mPhysics.manifold = "pad"
    ELSE hitSeg # 0 /\ mTerrain.mSegments2D[hitSeg].isLandingPad

FuelMonotone ==
  [][ /\ 0 <= mLander.mFuel /\ mLander.mFuel <= mMaxFuel
      /\ 0 <= mLander'.mFuel /\ mLander'.mFuel <= mMaxFuel
      /\ op' \notin ResetOps => mLander'.mFuel <= mLander.mFuel
      /\ (op' = "Lander::Update" /\ mLander.mFuel > 0 /\ mLander'.mFuel = 0)
           => (~mLander'.mThrustActive /\ mLander'.mThrustLevel = 0)
    ]_vars

\* A Lander::Update step has used up the fuel.
W_FuelMonotone ==
  /\ op = "Lander::Update"
  /\ burned > 0
  /\ mLander.mFuel = 0
  /\ ~mLander.mThrustActive

\* C7: in every reachable state thrust-active is true iff the thrust level
\* is above 0 and the fuel is above 0.
ThrustActiveDerived ==
  mLander.mThrustActive <=> (mLander.mThrustLevel > 0 /\ mLander.mFuel > 0)

\* Thrust is still active after a Lander::Update that consumed fuel.
W_ThrustActiveDerived ==
  /\ op = "Lander::Update"
  /\ mLander.mThrustActive
  /\ mLander.mFuel < mMaxFuel

\* C8: ApplyThrust(amount) with fuel left sets the thrust level to amount
\* clamped into [0,1] and thrust-active to (level > 0); with no fuel left it
\* sets level 0 and thrust-active false; the level is within [0,1] always.
ApplyThrustClamps ==
  [][ /\ 0 <= mLander'.mThrustLevel /\ mLander'.mThrustLevel <= Milli
      /\ op' = "Lander::ApplyThrust" =>
            IF mLander.mFuel > 0
            THEN /\ mLander'.mThrustLevel =
                      (IF arg'[1] < 0 THEN 0 ELSE IF arg'[1] > Milli THEN Milli ELSE arg'[1])
                 /\ mLander'.mThrustActive <=> (mLander'.mThrustLevel > 0)
            ELSE mLander'.mThrustLevel = 0 /\ ~mLander'.mThrustActive
    ]_vars

\* A request above 1 was clamped to 1.
W_ApplyThrustClamps ==
  /\ op = "Lander::ApplyThrust"
  /\ arg[1] > Milli
  /\ mLander.mThrustLevel = Milli
  /\ mLander.mThrustActive

\* C9: as long as fuel is left, the fuel used since the last reset is
\* rate * (sum of thrustLevel * deltaTime over the Lander::Update calls made
\* with thrust active), whatever the steps; a Lander::Update with thrust
\* inactive leaves the fuel unchanged.
FuelBurnExact ==
  [][ /\ (op' = "Lander::Update" /\ ~mLander.mThrustActive)
           => mLander'.mFuel = mLander.mFuel
      /\ mLander'.mFuel > 0
           => (mMaxFuel - mLander'.mFuel) * TicksPerSecond = mFuelConsumptionRate * burned'
    ]_vars

\* Level 0.5 for 2 s, in two steps of 1 s, has used 10 kg.
W_FuelBurnExact ==
  /\ op = "Lander::Update"
  /\ arg = << TicksPerSecond >>
  /\ nOps = 3
  /\ mLander.mThrustLevel * 2 = Milli
  /\ burned = mLander.mThrustLevel * 2 * TicksPerSecond
  /\ mLander.mFuel = mMaxFuel - 10 * Milli

\* What every reset restores besides the position.
RestoredButPosition(l) ==
  /\ l.mVelocity = << 0, 0, 0 >>
  /\ l.mAcceleration = << 0, 0, 0 >>
  /\ l.mRotation = << 0, 0, 0 >>
  /\ l.mFuel = mMaxFuel
  /\ l.mThrustLevel = 0
  /\ ~l.mThrustActive
  /\ ~l.mLanded
  /\ ~l.mCrashed
  /\ l.mActive

\* The terrain's horizontal center, in metres.
TerrainCenterX == RDiv(mWindowWidth * Meter, 2 * mPixelsPerMeter)

\* C10 as stated: every reset (Lander::Reset, Game::Reset) puts the vehicle at
\* a fixed height directly above the terrain's horizontal center, and restores
\* zero velocity, acceleration and rotation, full fuel, thrust off,
\* landed = crashed = false, active = true.
ResetAboveTerrainCenter ==
  [][ op' \in ResetOps
        => /\ RestoredButPosition(mLander')
           /\ mLander'.mPosition[1] = TerrainCenterX
           /\ mLander'.mPosition[2] \in { 5 * Meter, startHeight }
    ]_vars

\* C10, amended: Lander::Reset puts the vehicle at (0, 5 m, 0), Game::Reset
\* at (center, 20 m) above the terrain's center (z = center in 3D mode); both
\* restore zero velocity, acceleration and rotation, full fuel, thrust off,
\* landed = crashed = false, active = true.
ResetRestores ==
  [][ /\ op' = "Lander::Reset"
           => /\ RestoredButPosition(mLander')
              /\ mLander'.mPosition = << 0, 5 * Meter, 0 >>
      /\ op' = "Game::Reset"
           => /\ RestoredButPosition(mLander')
              /\ mLander'.mPosition =
                   << TerrainCenterX, startHeight, IF game3DMode THEN TerrainCenterX ELSE 0 >>
    ]_vars

\* Lander::Reset has reset a vehicle that was landed or crashed.
W_ResetRestores ==
  /\ op = "Lander::Reset"
  /\ wasTerminal
  /\ mLander.mPosition[1] = 0

\* C11: the roll rotation is in [0,360) in every state; RotateLeft(a) adds a
\* and RotateRight(a) subtracts a, each modulo 360 (so that RotateLeft(a)
\* followed by RotateRight(a) restores the angle).
RotationWraps ==
  [][ /\ 0 <= mLander'.mRotation[3] /\ mLander'.mRotation[3] < 360
      /\ op' = "Lander::RotateLeft"
           => mLander'.mRotation[3] = (mLander.mRotation[3] + arg'[1]) % 360
      /\ op' = "Lander::RotateRight"
           => mLander'.mRotation[3] = (mLander.mRotation[3] - arg'[1]) % 360
    ]_vars

\* C12: Lander::ApplyThrust and Lander::Update called on a vehicle that is
\* landed or crashed leave its thrust level, thrust-active flag, fuel,
\* velocity and position as they were.
ThrustNoOpWhenTerminal ==
  [][ (Terminal(mLander) /\ op' \in { "Lander::ApplyThrust", "Lander::Update" })
        => /\ mLander'.mThrustLevel = mLander.mThrustLevel
           /\ mLander'.mThrustActive = mLander.mThrustActive
           /\ mLander'.mFuel = mLander.mFuel
           /\ mLander'.mVelocity = mLander.mVelocity
           /\ mLander'.mPosition = mLander.mPosition
    ]_vars

\* C13: Physics::Update and Physics::CheckCollisions on an engine without
\* vehicle or without terrain change nothing, and a terrain query called with
\* a null vehicle changes nothing, returns false and is not fatal.
NullHandled ==
  [][ /\ (op' \in PhysicsOps /\ (~mPhysics.mLander \/ ~mPhysics.mTerrain))
           => UNCHANGED << mLander, mTerrain, mPhysics >>
      /\ op' \in NullQueries
           => (nullQuery' = ReturnedFalse /\ UNCHANGED << mLander, mTerrain, mPhysics >>)
    ]_vars

\* C14: in every reachable state the engine's 3D-mode flag equals the
\* driver's 3D-mode flag, so that Physics::Update takes the rigid-body path
\* exactly when the driver is in 3D mode.
EngineFollowsDriver == mPhysics.m3DMode = game3DMode

\* C15: free fall in analytic mode from rest, h above the ground, with a
\* fixed step dt: while the vehicle is up after N steps its speed is N*g*dt
\* and N*dt is below sqrt(2h/g); when it is down after N steps, N*dt differs
\* from sqrt(2h/g) by less than dt (and so N*g*dt from g*sqrt(2h/g) by less
\* than g*dt).  Times in ticks: (N*dt)^2 is compared with 2h/g.
FreeFallConverges ==
  LET N == nOps
      dt == arg[1]
      h == arg[2]
      g == mPhysics.mGravity
      twoH == 2 * h * TicksPerSecond * TicksPerSecond
  IN  op \in { "Physics::SetGravity", "Physics::Update" } =>
        /\ ~Terminal(mLander) =>
              /\ g * (N * dt) * (N * dt) < twoH
              /\ mLander.mVelocity[2] * TicksPerSecond = -(N * dt * g)
        /\ Terminal(mLander) =>
              /\ g * ((N - 1) * dt) * ((N - 1) * dt) < twoH
              /\ twoH < g * ((N + 1) * dt) * ((N + 1) * dt)

\* A fall of 5 m in lunar gravity with a step of 0.1 s has ended.
W_FreeFallConverges ==
  /\ op = "Physics::Update"
  /\ Terminal(mLander)
  /\ arg = << 1, 5 * Meter >>
  /\ mPhysics.mGravity = LunarGravity
  /\ nOps > 1

CollisionSnaps ==
  [][ /\ (op' \in PhysicsOps /\ ~mPhysics.m3DMode /\ ~Terminal(mLander) /\ Terminal(mLander'))
          => /\ hitSeg' # 0
             /\ LET collisionHeight ==
                      TerrainHeightMeters(mTerrain, mTerrain.mSegments2D[hitSeg'], AtCollision)
                    halfHeight == RDiv(RDiv(LanderHeightPx * Meter, mPixelsPerMeter), 2)
                IN  /\ mLander'.mVelocity[1] = 0
                    /\ mLander'.mVelocity[2] = 0
                    /\ mLander'.mPosition[1] = AtCollision.mPosition[1]
                    /\ mLander'.mPosition[2] = collisionHeight + halfHeight
                    /\ LanderBottomY(mLander') = collisionHeight
                    /\ mLander'.mLanded # mLander'.mCrashed
      /\ (/\ op' \in PhysicsOps /\ ~mPhysics.m3DMode /\ ~Terminal(mLander)
          /\ mPhysics.mLander /\ mPhysics.mTerrain
          /\ \E k \in DOMAIN mTerrain.mSegments2D : CollidesOn(mTerrain, k, AtCollision))
          => Terminal(mLander')
    ]_vars

\* An analytic-mode step has detected a collision on a sloped segment and
\* left the vehicle on it, at rest.
W_CollisionSnaps ==
  /\ op \in PhysicsOps
  /\ ~mPhysics.m3DMode
  /\ ~wasTerminal
  /\ Terminal(mLander)
  /\ hitSeg # 0
  /\ mTerrain.mSegments2D[hitSeg].y1 # mTerrain.mSegments2D[hitSeg].y2
  /\ LanderBottomY(mLander) = TerrainHeightMeters(mTerrain, mTerrain.mSegments2D[hitSeg], mLander)
  /\ mLander.mVelocity[1] = 0 /\ mLander.mVelocity[2] = 0


\* The segments whose span [x1, x2] contains the x-coordinate px (pixels), and
\* the height in metres of segment k at px by linear interpolation.
SpanContains(t, px) ==
  { k \in DOMAIN t.mSegments2D :
      t.mSegments2D[k].x1 * Meter <= px /\ px <= t.mSegments2D[k].x2 * Meter }

InterpolatedHeight(t, k, px) ==
  LET sg == t.mSegments2D[k]
      y == sg.y1 * Meter + RDiv((px - sg.x1 * Meter) * (sg.y2 - sg.y1), sg.x2 - sg.x1)
  IN  RDiv(t.mHeight * Meter - y, mPixelsPerMeter)

\* C20: Terrain::CheckCollision2D signals a collision iff some segment whose
\* span contains the vehicle's x in pixels has there an interpolated height,
\* in metres, at or above the vehicle's bottom (y minus half its height); the
\* height returned is that of the first such segment in order; and with x
\* outside every segment no collision is signalled, however low the vehicle.
CheckCollision2DCharacterised ==
  LET r == Terrain_CheckCollision2D(mTerrain, mLander)
      px == mLander.mPosition[1] * mPixelsPerMeter
      bottom == mLander.mPosition[2] - RDiv(RDiv(LanderHeightPx * Meter, mPixelsPerMeter), 2)
      under == { k \in SpanContains(mTerrain, px) : InterpolatedHeight(mTerrain, k, px) >= bottom }
  IN  /\ r.collides <=> under # {}
      /\ r.collides =>
           /\ r.seg \in under
           /\ \A j \in under : r.seg <= j
           /\ r.collisionHeight = InterpolatedHeight(mTerrain, r.seg, px)
      /\ SpanContains(mTerrain, px) = {} => ~r.collides

\* The vehicle is on the joint of two segments that are both at or above its
\* bottom, and the collision check has signalled on the first of them.
W_CheckCollision2DCharacterised ==
  /\ op = "Physics::CheckCollisions"
  /\ ~wasTerminal
  /\ hitSeg # 0
  /\ hitSeg + 1 \in SpanContains(mTerrain, mLander.mPosition[1] * mPixelsPerMeter)
  /\ hitSeg \in SpanContains(mTerrain, mLander.mPosition[1] * mPixelsPerMeter)
  /\ InterpolatedHeight(mTerrain, hitSeg, mLander.mPosition[1] * mPixelsPerMeter)
       # InterpolatedHeight(mTerrain, hitSeg + 1, mLander.mPosition[1] * mPixelsPerMeter)


\* The indices of the segments flagged as landing pad.
PadSegments(t) == { k \in DOMAIN t.mSegments2D : t.mSegments2D[k].isLandingPad }

\* C21: after Generate2D(width, height) with width > 0 the ten segments are
\* ordered left to right, the first starts at x = 0, each x2 is the next
\* segment's x1, the last ends at x = width, and the segments flagged as
\* landing pad form one non-empty contiguous index range.
SegmentsSpanWidth ==
  (op = "Terrain::Generate2D" /\ ~faulted) =>
    LET sg == mTerrain.mSegments2D
        pad == PadSegments(mTerrain)
    IN  /\ Len(sg) = segmentCount
        /\ sg[1].x1 = 0
        /\ \A k \in 1..(Len(sg) - 1) : sg[k].x2 = sg[k + 1].x1 /\ sg[k].x1 <= sg[k + 1].x1
        /\ sg[Len(sg)].x2 = arg[1]
        /\ pad # {}
        /\ \A i \in pad, j \in pad, k \in DOMAIN sg : (i <= k /\ k <= j) => k \in pad

\* C22: after Generate2D(width, height) the landing pad, the union of the
\* flagged segments, is 2 * (width / 10) pixels wide and centred on width / 2
\* (for the width 800: the range 320..480).
PadTwoSegmentsCentred ==
  (op = "Terrain::Generate2D" /\ ~faulted /\ PadSegments(mTerrain) # {}) =>
    LET sg == mTerrain.mSegments2D
        pad == PadSegments(mTerrain)
        left == sg[CHOOSE k \in pad : \A j \in pad : k <= j].x1
        right == sg[CHOOSE k \in pad : \A j \in pad : k >= j].x2
    IN  /\ right - left = 2 * CDiv(arg[1], segmentCount)
        /\ left + right = 2 * CDiv(arg[1], 2)

\* C23: for every width > 0 and every height Generate2D completes without an
\* arithmetic fault, leaves exactly the segments of indices 0..N-1, and every
\* segment flagged as landing pad is flat at the baseline, y1 = y2 = height - 50.
Generate2DSafe ==
  op = "Terrain::Generate2D" =>
    /\ ~faulted
    /\ Len(mTerrain.mSegments2D) = segmentCount
    /\ \A k \in PadSegments(mTerrain) :
         /\ mTerrain.mSegments2D[k].y1 = arg[2] - 50
         /\ mTerrain.mSegments2D[k].y2 = arg[2] - 50


\* C24: after Generate3D every grid cell has emitted two triangles with the
\* same landing-pad flag, the flagged cells are those that lie between 1/3
\* and 2/3 of the grid on both axes, and every flagged triangle is flat:
\* its three vertex heights equal the baseline height - 50.
PadTrianglesFlat ==
  op = "Terrain::Generate3D" =>
    LET tr == mTerrain.mTriangles3D
        baseline == (arg[3] - 50) * Meter
    IN  /\ Len(tr) = 2 * gridSize * gridSize
        /\ \A x \in 0..(gridSize - 1), z \in 0..(gridSize - 1) :
             LET n == 2 * (z * gridSize + x) + 1
             IN  /\ tr[n].isLandingPad = tr[n + 1].isLandingPad
                 /\ tr[n].isLandingPad <=>
                      (/\ 3 * x >= gridSize /\ 3 * (x + 1) <= 2 * gridSize
                       /\ 3 * z >= gridSize /\ 3 * (z + 1) <= 2 * gridSize)
        /\ \A n \in DOMAIN tr :
             tr[n].isLandingPad =>
               /\ tr[n].vertices[2] = baseline
               /\ tr[n].vertices[5] = baseline
               /\ tr[n].vertices[8] = baseline


\* The velocity Physics::CheckCollisions3D reads in the step op': the rigid
\* body's, which Update has just copied to the vehicle.
AtContact ==
  IF op' = "Physics::Update" THEN mLander'.mVelocity ELSE mPhysics.mLanderRigidBody.vel

StepIntegrates ==
  [][ (/\ op' = "Physics::Update" /\ ~mPhysics.m3DMode
       /\ mPhysics.mLander /\ mPhysics.mTerrain
       /\ ~Terminal(mLander) /\ ~Terminal(mLander'))
        => LET dt == arg'[1] * mPhysics.mTimeScale * mPhysics.mTimeScale
               g == mPhysics.mGravity
               roll == mLander.mRotation[3]
               accel == IF mLander.mThrustActive
                        THEN RDiv(RDiv(25 * g, 10) * mLander.mThrustLevel, Milli)
                        ELSE 0
               ax == RDiv(-Sin(roll) * accel, Milli)
               ay == RDiv(Cos(roll) * accel, Milli)
               vx == mLander.mVelocity[1] + RDiv(ax * dt, TicksPerSecond)
               vy == mLander.mVelocity[2] - RDiv(g * dt, TicksPerSecond) + RDiv(ay * dt, TicksPerSecond)
           IN  /\ mLander'.mVelocity[1] = vx
               /\ mLander'.mVelocity[2] = vy
               /\ mLander'.mPosition[1] = mLander.mPosition[1] + RDiv(vx * dt, TicksPerSecond)
               /\ mLander'.mPosition[2] = mLander.mPosition[2] + RDiv(vy * dt, TicksPerSecond)
               /\ roll = 0 => mLander'.mVelocity[1] = mLander.mVelocity[1]
               /\ (roll = 0 /\ mLander.mThrustActive /\ mLander.mThrustLevel = Milli)
                    => mLander'.mVelocity[2] - mLander.mVelocity[2]
                         = RDiv(15 * g * dt, 10 * TicksPerSecond)
               /\ (~mLander.mThrustActive \/ mLander.mThrustLevel = 0)
                    => /\ mLander'.mVelocity[1] = mLander.mVelocity[1]
                       /\ mLander'.mVelocity[2] - mLander.mVelocity[2]
                            = -RDiv(g * dt, TicksPerSecond)
    ]_vars

\* A step was taken at roll 0 under full thrust: the vehicle, at rest before,
\* climbs.
W_StepIntegrates ==
  /\ op = "Physics::Update"
  /\ ~mPhysics.m3DMode
  /\ arg[1] > 0
  /\ ~Terminal(mLander)
  /\ mLander.mThrustActive
  /\ mLander.mThrustLevel = Milli
  /\ mLander.mRotation[3] = 0
  /\ mLander.mVelocity[1] = 0
  /\ mLander.mVelocity[2] = RDiv(15 * mPhysics.mGravity * arg[1], 10 * TicksPerSecond)


\* The game state agrees with the vehicle's flags.
StateAgrees ==
  /\ mGameState = "LANDED" <=> mLander.mLanded
  /\ mGameState = "CRASHED" <=> mLander.mCrashed
  /\ mGameState = "FLYING" <=> (~mLander.mLanded /\ ~mLander.mCrashed)

\* C27, as stated: at the end of every frame of the initialized game the
\* game state is LANDED iff the vehicle is landed, CRASHED iff it is
\* crashed, FLYING iff neither; and physics is stepped only in frames that
\* start in FLYING.
FrameAgreesSteppedFromFlying ==
  (op = "Game::Run" /\ ~faulted) =>
    /\ StateAgrees
    /\ frame.stepped => frame.start = "FLYING"

\* C27, amended: at the end of every frame the game state agrees with the
\* vehicle's flags, and physics is stepped only in frames that start in
\* FLYING or whose input resets the game (the R key held or pressed, a
\* difficulty key, TAB) before Game::Update runs.
FrameAgrees ==
  (op = "Game::Run" /\ ~faulted) =>
    /\ StateAgrees
    /\ frame.stepped =>
         \/ frame.start = "FLYING"
         \/ arg[1].reset
         \/ arg[1].event \in { "r", "1", "2", "3", "TAB" }

\* A frame began with the vehicle down, its input reset the game, and the
\* same frame stepped the physics of the new flight.
W_FrameAgrees ==
  /\ op = "Game::Run"
  /\ ~faulted
  /\ frame.start \in { "LANDED", "CRASHED" }
  /\ frame.stepped
  /\ mGameState = "FLYING"
  /\ ~mLander.mLanded /\ ~mLander.mCrashed


\* C29: no object is destroyed while one of its own methods is executing; in
\* particular no key event dispatched from inside InputHandler::ProcessInput
\* destroys that InputHandler before its loop has returned.
NotDestroyedInOwnCall ==
  op = "Game::Run" => ~frame.destroyedInCall

\* C30: in every state of the running game GetFuelUsed() is the fuel consumed
\* since the last reset, maxFuel minus the vehicle's fuel: 0 right after
\* Reset, growing while thrust is held.
FuelUsedTracks ==
  mGame.mFuelUsed = mMaxFuel - mLander.mFuel

\* C28: every flight ends: from the state Game::Reset produces, in either
\* driver mode, with frames of positive duration, the game eventually leaves
\* FLYING (the vehicle becomes landed or crashed).
FlightEnds ==
  <>(mGameState # "FLYING")

====
